---- MODULE Spec2Model ----
(***************************************************************************)
(* A model of the concurrent core of the file processor:                   *)
(*   thread_pool.rs  ThreadPool / Worker (job queue, shutdown)             *)
(*   processor.rs    FileProcessor (dispatcher thread, job closure,        *)
(*                   cancellation flag, byte counter, progress channel)    *)
(*   main.rs         the consumer loop of the progress channel             *)
(*   tests.rs        the token-sending jobs of the thread pool test        *)
(*                                                                         *)
(* Two specifications share the pool:                                      *)
(*   PoolSpec  the pool driven directly through execute()/shutdown(),      *)
(*             with jobs that send a token (tests.rs);                     *)
(*   Spec      the pool owned by a FileProcessor, driven by main.rs, with  *)
(*             cancel() callable at any time.                              *)
(***************************************************************************)
EXTENDS Integers, Sequences, FiniteSets

\* ---------------------------------------------------------------- bounds
MaxWorkers == 2
MaxJobs == 3
MaxFiles == 2

\* Sizes a discovered file may have (metadata().len()).
FileSizes == {0, 50}
\* The size of a file whose metadata has not been read.
NoSize == -1

VARIABLES
    \* ---- ThreadPool (thread_pool.rs)
    size,            \* number of workers given to ThreadPool::new
    sender,          \* ThreadPool.sender: "Some" | "None"
    queue,           \* messages in the job channel, oldest first
    recvLock,        \* holder of the Mutex around the Receiver: 0 = free, else worker id
    wpc,             \* position of each worker thread in its loop / in the job it runs
    wjob,            \* the job a worker holds
    thread,          \* Worker.thread of each worker: "Some" | "None"
    sdPc,            \* position inside shutdown(): "none" | "send" | "join" | "wait"
    sdI,             \* loop index inside shutdown()
    \* ---- the caller of the pool in tests.rs
    nextToken,       \* the next job number to submit with execute()
    results,         \* the tokens sent by the jobs, in send order
    pendingAtShutdown, \* history: jobs queued and not yet dequeued when shutdown() began
    lateJobs,        \* history: jobs passed to execute() after shutdown() began
    \* ---- FileProcessor (processor.rs)
    cancellation,    \* AtomicBool
    total_bytes_processed, \* AtomicUsize
    poolLock,        \* holder of the Mutex around the ThreadPool: "free" | "dispatcher"
    paths,           \* the resolved files of the process_dirs call
    fsize,           \* size in bytes of each resolved file, as read by analyze_file
                     \* (NoSize until then)
    ferrors,         \* the resolved files whose analysis came back with errors recorded
    total,           \* paths.len(), computed once
    dpc,             \* position of the dispatcher thread
    di,              \* position of the dispatcher's iterator in paths
    completed,       \* the dispatcher's local counter
    persisted,       \* the progress file: <<>> absent, <<n>> n bytes that are not
                     \* a progress record, <<c, t>> the record of (c, t)
    chan,            \* events in the progress channel, not yet received
    \* ---- main.rs
    mainPc,          \* position of the main thread
    received,        \* events the consumer loop has received, in order
    reported         \* the total printed by the final summary

poolVars == <<size, sender, queue, recvLock, wpc, wjob, thread, sdPc, sdI>>
testVars == <<nextToken, results, pendingAtShutdown, lateJobs>>
procVars == <<cancellation, total_bytes_processed, poolLock, paths, fsize, ferrors, total,
              dpc, di, completed, persisted, chan>>
mainVars == <<mainPc, received, reported>>
vars == <<poolVars, testVars, procVars, mainVars>>

\* ------------------------------------------------------------- messages
NoJob == [type |-> "None"]
\* Message::Shutdown
ShutdownMsg == [type |-> "Shutdown"]
\* Message::NewJob(job) for a job of tests.rs that sends the token i
TokenJob(i) == [type |-> "NewJob", kind |-> "token", id |-> i]
\* Message::NewJob(job) for the job closure of processor.rs over paths[i]
FileJob(i) == [type |-> "NewJob", kind |-> "file", id |-> i]
\* Message::NewJob(job) for a job whose body panics
PanicJob(i) == [type |-> "NewJob", kind |-> "panic", id |-> i]
\* The positions of a worker thread that has ended: it left its loop, or a
\* job panicked on it and the thread unwound.
Ended == {"exited", "panicked"}

Workers == 1..size

\* ------------------------------------------------------ ThreadPool::new
\* The state after ThreadPool::new(size): size workers, each about to lock
\* the receiver, an empty queue and a live sender.
PoolInit ==
    /\ size \in 1..MaxWorkers
    /\ sender = "Some"
    /\ queue = <<>>
    /\ recvLock = 0
    /\ wpc = [w \in 1..size |-> "lock"]
    /\ wjob = [w \in 1..size |-> NoJob]
    /\ thread = [w \in 1..size |-> "Some"]
    /\ sdPc = "none"
    /\ sdI = 0

\* The send-end of the job channel is alive: the pool still holds it, or
\* shutdown() holds the taken sender while it sends the Shutdown messages.
JobSenderAlive == sender = "Some" \/ sdPc = "send"

\* The receive-end of the job channel is alive while some worker thread
\* (each holds an Arc of it) has not ended.
JobReceiverAlive == \E w \in Workers : wpc[w] \notin Ended

\* mpsc::Sender::send on the job channel: appends, or fails (ignored by the
\* callers) when the receiver is gone.
SendJobMsg(q, m) == IF JobReceiverAlive THEN Append(q, m) ELSE q

\* Mutant of execute: the job is enqueued whatever the state of the pool.
executeAlways(q, job) == Append(q, job)
\* ThreadPool::execute: enqueue only while the pool holds its sender.
execute(q, job) == IF sender = "Some" THEN SendJobMsg(q, job) ELSE q

\* --------------------------------------------------------------- Worker
\* receiver.lock(): a worker takes the mutex around the receiver.
WorkerLock(w) ==
    /\ wpc[w] = "lock"
    /\ recvLock = 0
    /\ recvLock' = w
    /\ wpc' = [wpc EXCEPT ![w] = "recv"]
    /\ UNCHANGED <<size, sender, queue, wjob, thread, sdPc, sdI>>

\* Err(RecvError): what recv() returns on an empty, disconnected channel.
RecvErr == [type |-> "Err"]

\* Mutant of recv: the newest message is returned.
recvNewest(q) == IF q # <<>> THEN q[Len(q)] ELSE RecvErr
\* The result of lock.recv() once it returns: the oldest message, or Err
\* when the queue is empty (and every sender is gone).
recv(q) == IF q # <<>> THEN Head(q) ELSE RecvErr

\* Mutant of Dequeue: the message is read but left in the queue.
DequeueKeepsHead(q) == q
\* The queue after lock.recv() returned.
Dequeue(q) == IF q # <<>> THEN Tail(q) ELSE q

\* The queue once the thread of worker w has ended and its Arc of the
\* receiver is dropped: when no other worker thread is left the receiver
\* itself is dropped, and with it every message still in the channel.
ReceiverDropped(q, w) ==
    IF \A v \in Workers \ {w} : wpc[v] \in Ended THEN <<>> ELSE q

\* The worker's position after `match message`: a job is run, Shutdown and
\* Err break the loop.
AfterMatch(m) == IF m.type = "NewJob" THEN "job" ELSE "exited"

\* Mutant of WorkerRecv: the guard is kept while the message is matched and
\* the job runs.
WorkerRecvKeepsLock(w) ==
    /\ wpc[w] = "recv"
    /\ recvLock = w
    /\ queue # <<>> \/ ~JobSenderAlive
    /\ queue' = IF AfterMatch(recv(queue)) = "exited"
                  THEN ReceiverDropped(Dequeue(queue), w)
                  ELSE Dequeue(queue)
    /\ wpc' = [wpc EXCEPT ![w] = AfterMatch(recv(queue))]
    /\ wjob' = [wjob EXCEPT
                  ![w] = IF recv(queue).type = "NewJob" THEN recv(queue) ELSE NoJob]
    /\ recvLock' = IF recv(queue).type = "NewJob" THEN w ELSE 0
    /\ UNCHANGED <<size, sender, thread, sdPc, sdI>>

\* lock.recv() returns, the guard is dropped and the message is matched.
\* recv() blocks, with the lock held, while the queue is empty and a sender
\* is alive.
WorkerRecv(w) ==
    /\ wpc[w] = "recv"
    /\ recvLock = w
    /\ queue # <<>> \/ ~JobSenderAlive
    /\ queue' = IF AfterMatch(recv(queue)) = "exited"
                  THEN ReceiverDropped(Dequeue(queue), w)
                  ELSE Dequeue(queue)
    /\ wpc' = [wpc EXCEPT ![w] = AfterMatch(recv(queue))]
    /\ wjob' = [wjob EXCEPT
                  ![w] = IF recv(queue).type = "NewJob" THEN recv(queue) ELSE NoJob]
    /\ recvLock' = 0
    /\ UNCHANGED <<size, sender, thread, sdPc, sdI>>

\* A job of tests.rs runs: tx.send(i), then the worker loops.
TokenJobRun(w) ==
    /\ wpc[w] = "job"
    /\ wjob[w].kind = "token"
    /\ results' = Append(results, wjob[w].id)
    /\ wpc' = [wpc EXCEPT ![w] = "lock"]
    /\ wjob' = [wjob EXCEPT ![w] = NoJob]
    /\ UNCHANGED <<size, sender, queue, recvLock, thread, sdPc, sdI>>
    /\ UNCHANGED <<nextToken, pendingAtShutdown, lateJobs>>

\* A job that panics runs: job() unwinds through the worker's loop, nothing
\* catches it, and the worker thread ends with the job and its Arc of the
\* receiver dropped.
PanicJobRun(w) ==
    /\ wpc[w] = "job"
    /\ wjob[w].kind = "panic"
    /\ wpc' = [wpc EXCEPT ![w] = "panicked"]
    /\ wjob' = [wjob EXCEPT ![w] = NoJob]
    /\ queue' = ReceiverDropped(queue, w)
    /\ UNCHANGED <<size, sender, recvLock, thread, sdPc, sdI>>
    /\ UNCHANGED <<nextToken, results, pendingAtShutdown, lateJobs>>

\* ------------------------------------------------- ThreadPool::shutdown
\* The jobs in the queue.
QueuedJobs(q) == {q[k].id : k \in {n \in 1..Len(q) : q[n].type = "NewJob"}}

\* Mutant of ShutdownTake: the sender is borrowed, not taken.
ShutdownTakeKeepsSender == sender
\* shutdown() is entered: self.sender.take(). With a sender the Shutdown
\* messages are sent next; without one only the join loop runs.
ShutdownTake == "None"

ShutdownBegin ==
    /\ sdPc = "none"
    /\ sender' = ShutdownTake
    /\ sdPc' = IF sender = "Some" THEN "send" ELSE "join"
    /\ sdI' = 1
    /\ UNCHANGED <<size, queue, recvLock, wpc, wjob, thread>>

\* Mutants of ShutdownSend: the Shutdown message overtakes the queued jobs,
\* or the queued jobs are discarded when it is sent.
ShutdownSendJumpsQueue ==
    /\ sdPc = "send"
    /\ queue' = <<ShutdownMsg>> \o queue
    /\ IF sdI < size
         THEN /\ sdI' = sdI + 1
              /\ sdPc' = "send"
         ELSE /\ sdI' = 1
              /\ sdPc' = "join"
    /\ UNCHANGED <<size, sender, recvLock, wpc, wjob, thread>>

ShutdownSendClearsQueue ==
    /\ sdPc = "send"
    /\ queue' = Append(SelectSeq(queue, LAMBDA m : m.type = "Shutdown"), ShutdownMsg)
    /\ IF sdI < size
         THEN /\ sdI' = sdI + 1
              /\ sdPc' = "send"
         ELSE /\ sdI' = 1
              /\ sdPc' = "join"
    /\ UNCHANGED <<size, sender, recvLock, wpc, wjob, thread>>

\* Mutant of ShutdownSend: a single Shutdown message is sent, whatever the
\* number of workers.
ShutdownSendOnce ==
    /\ sdPc = "send"
    /\ queue' = SendJobMsg(queue, ShutdownMsg)
    /\ sdI' = 1
    /\ sdPc' = "join"
    /\ UNCHANGED <<size, sender, recvLock, wpc, wjob, thread>>

\* One iteration of `for _ in &self.workers { sender.send(Shutdown) }`; after
\* the last one the taken sender is dropped and the join loop starts.
ShutdownSend ==
    /\ sdPc = "send"
    /\ queue' = SendJobMsg(queue, ShutdownMsg)
    /\ IF sdI < size
         THEN /\ sdI' = sdI + 1
              /\ sdPc' = "send"
         ELSE /\ sdI' = 1
              /\ sdPc' = "join"
    /\ UNCHANGED <<size, sender, recvLock, wpc, wjob, thread>>

\* The head of an iteration of the join loop: worker.thread.take(). With a
\* handle the thread calls join() on it next; a worker whose handle was
\* already taken is skipped. After the last worker shutdown() returns.
ShutdownJoin ==
    /\ sdPc = "join"
    /\ thread' = [thread EXCEPT ![sdI] = "None"]
    /\ IF thread[sdI] = "Some"
         THEN /\ sdPc' = "wait"
              /\ sdI' = sdI
         ELSE IF sdI < size
                THEN /\ sdI' = sdI + 1
                     /\ sdPc' = "join"
                ELSE /\ sdI' = 0
                     /\ sdPc' = "none"
    /\ UNCHANGED <<size, sender, queue, recvLock, wpc, wjob>>

\* thread.join() returns, once the worker thread has ended (Ok when it left
\* its loop, Err when it panicked; the result is ignored), and the loop
\* moves on. After the last worker shutdown() returns.
ShutdownWait ==
    /\ sdPc = "wait"
    /\ wpc[sdI] \in Ended
    /\ IF sdI < size
         THEN /\ sdI' = sdI + 1
              /\ sdPc' = "join"
         ELSE /\ sdI' = 0
              /\ sdPc' = "none"
    /\ UNCHANGED <<size, sender, queue, recvLock, wpc, wjob, thread>>

\* ------------------------------------------- the pool used directly
\* The caller of tests.rs: pool.execute(move || tx.send(i)), here at most
\* MaxJobs times, also after a shutdown().
Execute ==
    /\ sdPc = "none"
    /\ nextToken <= MaxJobs
    /\ queue' = execute(queue, TokenJob(nextToken))
    /\ nextToken' = nextToken + 1
    /\ lateJobs' = IF sender = "None" THEN lateJobs \cup {nextToken} ELSE lateJobs
    /\ UNCHANGED <<size, sender, recvLock, wpc, wjob, thread, sdPc, sdI>>
    /\ UNCHANGED <<results, pendingAtShutdown>>

\* The caller hands the pool a job that panics: pool.execute(|| panic!()).
ExecutePanicking ==
    /\ sdPc = "none"
    /\ nextToken <= MaxJobs
    /\ queue' = execute(queue, PanicJob(nextToken))
    /\ nextToken' = nextToken + 1
    /\ lateJobs' = IF sender = "None" THEN lateJobs \cup {nextToken} ELSE lateJobs
    /\ UNCHANGED <<size, sender, recvLock, wpc, wjob, thread, sdPc, sdI>>
    /\ UNCHANGED <<results, pendingAtShutdown>>

\* The caller calls pool.shutdown().
CallShutdown ==
    /\ ShutdownBegin
    /\ pendingAtShutdown' =
         IF sender = "Some" THEN QueuedJobs(queue) ELSE pendingAtShutdown
    /\ UNCHANGED <<nextToken, results, lateJobs>>

\* --------------------------------------------- FileProcessor::new, main
\* The progress file before the run: there is none, or one of some size left
\* by whoever wrote it.
ProgressFileBefore == {<<>>} \cup {<<n>> : n \in FileSizes}

\* The length of the text persist_progress writes,
\* format!(r#"{{"completed":{},"total":{}}}"#, completed, total).
Digits(n) == IF n < 10 THEN 1 ELSE 2
ProgressLen(c, t) == 13 + Digits(c) + 9 + Digits(t) + 1

\* The length the metadata of the progress file gives (0 when there is no
\* such file).
ProgressFileSize ==
    IF persisted = <<>> THEN 0
    ELSE IF Len(persisted) = 1 THEN persisted[1]
    ELSE ProgressLen(persisted[1], persisted[2])

\* The sizes an analysis can find.
Sizes == FileSizes \cup {ProgressLen(c, t) : c, t \in 0..MaxFiles}

ProcInit ==
    /\ cancellation = FALSE
    /\ total_bytes_processed = 0
    /\ poolLock = "free"
    /\ paths = <<>>
    /\ fsize = <<>>
    /\ ferrors = {}
    /\ total = 0
    /\ dpc = "none"
    /\ di = 0
    /\ completed = 0
    /\ persisted \in ProgressFileBefore
    /\ chan = <<>>

Init ==
    /\ PoolInit
    /\ nextToken = 1
    /\ results = <<>>
    /\ pendingAtShutdown = {}
    /\ lateJobs = {}
    /\ ProcInit
    /\ mainPc = "new"
    /\ received = <<>>
    /\ reported = -1

\* ------------------------------------------------------ progress events
\* ProgressMessage::FileStarted(path)
FileStarted(p) == [type |-> "FileStarted", path |-> p]
\* ProgressMessage::FileCompleted(analysis)
FileCompleted(a) == [type |-> "FileCompleted", path |-> a.filename, size_bytes |-> a.size_bytes]
\* ProgressMessage::FileFailed(path, ProcessingError { operation: "cancelled", .. })
FileFailed(p) == [type |-> "FileFailed", path |-> p, operation |-> "cancelled"]
\* Mutant of OverallProgress: the two fields are filled in the wrong order.
OverallProgressSwapped(c, t) == [type |-> "OverallProgress", completed |-> t, total |-> c]
\* ProgressMessage::OverallProgress { completed, total }
OverallProgress(c, t) == [type |-> "OverallProgress", completed |-> c, total |-> t]

\* The receive-end of the progress channel is alive: the caller of
\* process_dirs has not dropped the rx it was given.
ProgressReceiverAlive == mainPc # "dropped"

\* `let _ = tx.send(event)` on the progress channel: the event is appended
\* while the receive-end is alive; otherwise send returns Err, which is
\* ignored, and the event is lost.
send(c, e) == IF ProgressReceiverAlive THEN Append(c, e) ELSE c

\* The result of analyze_file(path), as far as the core reads it: the name,
\* stats.size_bytes (the length the file's metadata gave, 0 when the
\* metadata could not be read) and whether errors were recorded.
analyze_file(p) ==
    [filename |-> paths[p], size_bytes |-> fsize[p], errors |-> p \in ferrors]

\* Mutant of ProgressSenderAlive: a send-end is kept alive for ever.
ProgressSenderLeaked == TRUE

\* Some send-end of the progress channel is alive: tx_main while the
\* dispatcher thread runs, tx_submit inside every job that is queued or held
\* by a worker (tx is dropped when process_dirs returns, tx_file at the end
\* of each iteration, while tx_main is alive).
ProgressSenderAlive ==
    \/ dpc \notin {"none", "done", "ended"}
    \/ \E k \in 1..Len(queue) : queue[k].type = "NewJob" /\ queue[k].kind = "file"
    \/ \E w \in Workers : wjob[w].type = "NewJob" /\ wjob[w].kind = "file"

\* ------------------------------------------ FileProcessor::process_dirs
\* The name of the file at persist_path, the file persist_progress writes;
\* the other files are named 1, 2, ...
PersistPath == 0

\* The arguments of process_dirs: the path of a plain file, the path of a
\* directory (given by the paths of the files in it, in the order read_dir
\* yields them), or a path that is neither.
FileArg(i) == [kind |-> "file", name |-> i]
DirArg(fs) == [kind |-> "dir", files |-> fs]
MissingArg == [kind |-> "none"]

\* The arguments tried: every file, the progress file, a directory holding
\* file 1, a directory holding files 1 and 2, the directory of file 1 and of
\* the progress file, and a path that does not exist.
Args ==
    {FileArg(i) : i \in 1..MaxFiles} \cup {FileArg(PersistPath)}
      \cup {DirArg(<<1>>), DirArg(<<1, 2>>), DirArg(<<1, PersistPath>>)} \cup {MissingArg}

\* Path::is_file: the files 1, 2, ... exist, the progress file exists when
\* it was written before.
is_file(f) == f = PersistPath => persisted # <<>>

\* The argument lists tried: up to MaxFiles arguments.
ArgLists == UNION {[1..n -> Args] : n \in 0..MaxFiles}

RECURSIVE collect_files(_)
\* collect_files: a file argument is pushed as it is, a directory argument
\* has its files pushed, anything else is skipped. Nothing is removed: a
\* path named by two arguments is in the result twice.
collect_files(dirs) ==
    IF dirs = <<>> THEN <<>>
    ELSE LET d == Head(dirs)
             found == IF d.kind = "file"
                        THEN (IF is_file(d.name) THEN <<d.name>> ELSE <<>>)
                      ELSE IF d.kind = "dir" THEN SelectSeq(d.files, is_file)
                      ELSE <<>>
         IN  found \o collect_files(Tail(dirs))

\* The resolved lists the runs are explored for: at most MaxFiles entries,
\* the files other than the progress file named in order of first use (any
\* other list is one of these with those files renamed).
Explored(fs) ==
    /\ Len(fs) <= MaxFiles
    /\ \A k \in 1..Len(fs) :
          fs[k] <= 1 + Cardinality({fs[j] : j \in 1..(k - 1)} \ {PersistPath})

\* Mutant of ProcessDirs: a new call clears the cancellation flag.
ProcessDirsResetsCancel ==
    /\ mainPc = "new"
    /\ \E dirs \in ArgLists :
          /\ Explored(collect_files(dirs))
          /\ paths' = collect_files(dirs)
          /\ fsize' = [k \in 1..Len(collect_files(dirs)) |-> NoSize]
          /\ total' = Len(collect_files(dirs))
    /\ ferrors' = {}
    /\ cancellation' = FALSE
    /\ dpc' = "check"
    /\ di' = 1
    /\ completed' = 0
    /\ chan' = <<>>
    /\ mainPc' = "loop"
    /\ UNCHANGED <<total_bytes_processed, poolLock, persisted>>
    /\ UNCHANGED <<received, reported>>

\* main calls process_dirs: the channel is created, the files are collected,
\* total is taken, the dispatcher thread is spawned and rx is returned.
ProcessDirs ==
    /\ mainPc = "new"
    /\ \E dirs \in ArgLists :
          /\ Explored(collect_files(dirs))
          /\ paths' = collect_files(dirs)
          /\ fsize' = [k \in 1..Len(collect_files(dirs)) |-> NoSize]
          /\ total' = Len(collect_files(dirs))
    /\ ferrors' = {}
    /\ dpc' = "check"
    /\ di' = 1
    /\ completed' = 0
    /\ chan' = <<>>
    /\ mainPc' = "loop"
    /\ UNCHANGED <<cancellation, total_bytes_processed, poolLock, persisted>>
    /\ UNCHANGED <<received, reported>>

\* Mutant of cancel: the flag is flipped, not set.
cancelToggles == ~cancellation
\* FileProcessor::cancel: the value stored in the flag.
cancel == TRUE

Cancel ==
    /\ mainPc \in {"new", "loop", "summary", "dropped"}
    /\ cancellation' = cancel
    /\ UNCHANGED <<total_bytes_processed, poolLock, paths, fsize, ferrors, total, dpc, di,
                   completed, persisted, chan>>

\* Mutants of DispatcherBreaks: the flag is not looked at; the loop also
\* ends when the receive-end of the progress channel is gone.
DispatcherStopsOnDrop == di > Len(paths) \/ cancellation \/ ~ProgressReceiverAlive
DispatcherIgnoresCancel == di > Len(paths)

\* The head of `for path in paths`: the loop ends when the paths are used up,
\* and breaks when the cancellation flag is read as set.
DispatcherBreaks == di > Len(paths) \/ cancellation

DispCheck ==
    /\ dpc = "check"
    /\ dpc' = IF DispatcherBreaks THEN "done" ELSE "started"
    /\ UNCHANGED <<cancellation, total_bytes_processed, poolLock, paths, fsize, ferrors, total,
                   di, completed, persisted, chan>>

\* Mutant of DispStarted: no FileStarted is sent.
DispStartedSilent ==
    /\ dpc = "started"
    /\ dpc' = "execute"
    /\ UNCHANGED <<cancellation, total_bytes_processed, poolLock, paths, fsize, ferrors, total,
                   di, completed, persisted, chan>>

\* tx_file.send(FileStarted(path))
DispStarted ==
    /\ dpc = "started"
    /\ chan' = send(chan, FileStarted(paths[di]))
    /\ dpc' = "execute"
    /\ UNCHANGED <<cancellation, total_bytes_processed, poolLock, paths, fsize, ferrors, total,
                   di, completed, persisted>>

\* let pool_guard = pool_arc.lock().unwrap(); pool_guard.execute(job);
\* the guard lives on to the end of the iteration.
DispExecute ==
    /\ dpc = "execute"
    /\ poolLock = "free"
    /\ poolLock' = "dispatcher"
    /\ queue' = execute(queue, FileJob(di))
    /\ dpc' = "progress"
    /\ UNCHANGED <<cancellation, total_bytes_processed, paths, fsize, ferrors, total,
                   di, completed, persisted, chan>>
    /\ UNCHANGED <<size, sender, recvLock, wpc, wjob, thread, sdPc, sdI>>

\* Mutant of DispProgress: the event is sent before the counter is raised.
DispProgressStale ==
    /\ dpc = "progress"
    /\ completed' = completed + 1
    /\ chan' = send(chan, OverallProgress(completed, total))
    /\ dpc' = "persist"
    /\ UNCHANGED <<cancellation, total_bytes_processed, poolLock, paths, fsize, ferrors, total,
                   di, persisted>>

\* completed += 1; tx_main.send(OverallProgress { completed, total })
DispProgress ==
    /\ dpc = "progress"
    /\ completed' = completed + 1
    /\ chan' = send(chan, OverallProgress(completed + 1, total))
    /\ dpc' = "persist"
    /\ UNCHANGED <<cancellation, total_bytes_processed, poolLock, paths, fsize, ferrors, total,
                   di, persisted>>

\* persist_progress: std::fs::write first creates the file, truncating it.
DispPersistCreate ==
    /\ dpc = "persist"
    /\ persisted' = <<0>>
    /\ dpc' = "write"
    /\ UNCHANGED <<cancellation, total_bytes_processed, poolLock, paths, fsize, ferrors, total,
                   di, completed, chan>>

\* persist_progress: the file cannot be created. The error is ignored
\* (`let _ =`), the file is as it was, and the dispatcher goes on to its
\* sleep.
DispPersistCreateFails ==
    /\ dpc = "persist"
    /\ dpc' = "sleep"
    /\ UNCHANGED <<cancellation, total_bytes_processed, poolLock, paths, fsize, ferrors, total,
                   di, completed, persisted, chan>>

\* persist_progress: the write of the JSON text fails. The error is ignored
\* and the file stays empty.
DispPersistWriteFails ==
    /\ dpc = "write"
    /\ dpc' = "sleep"
    /\ UNCHANGED <<cancellation, total_bytes_processed, poolLock, paths, fsize, ferrors, total,
                   di, completed, persisted, chan>>

\* persist_progress: std::fs::write then writes the JSON text.
DispPersistWrite ==
    /\ dpc = "write"
    /\ persisted' = <<completed, total>>
    /\ dpc' = "sleep"
    /\ UNCHANGED <<cancellation, total_bytes_processed, poolLock, paths, fsize, ferrors, total,
                   di, completed, chan>>

\* thread::sleep(10 ms) returns and the iteration ends: pool_guard and
\* tx_file are dropped and the iterator moves on.
DispSleep ==
    /\ dpc = "sleep"
    /\ poolLock' = "free"
    /\ di' = di + 1
    /\ dpc' = "check"
    /\ UNCHANGED <<cancellation, total_bytes_processed, paths, fsize, ferrors, total,
                   completed, persisted, chan>>

\* The dispatcher's closure ends. Its captured values are dropped in turn:
\* tx_main went when the loop was left (dpc = "done"); now pool_arc goes. If
\* main has already dropped the processor this is the last owner of the
\* pool: ThreadPool's Drop runs here and calls shutdown().
DispEnd ==
    /\ dpc = "done"
    /\ dpc' = "ended"
    /\ IF mainPc = "exit"
         THEN ShutdownBegin
         ELSE UNCHANGED <<size, sender, queue, recvLock, wpc, wjob, thread, sdPc, sdI>>
    /\ UNCHANGED <<cancellation, total_bytes_processed, poolLock, paths, fsize, ferrors, total,
                   di, completed, persisted, chan>>

\* ------------------------------------------ the job closure of a file
\* Mutant of JobEntry: the job does not look at the flag.
JobIgnoresCancel == "analyze"
\* The entry of the job: the cancellation flag is read; when set the job
\* goes on to report FileFailed, otherwise to call analyze_file.
JobEntry == IF cancellation THEN "send_failed" ELSE "analyze"

\* The sizes the metadata of the p-th resolved file can give. The progress
\* file has the size the dispatcher's persist_progress has left it with at
\* that moment. No other file is written during the run, so a path analysed
\* before (without errors) gives the same size again.
SizesOf(p) ==
    LET seen == {q \in 1..Len(paths) :
                    paths[q] = paths[p] /\ fsize[q] # NoSize /\ q \notin ferrors}
    IN  IF paths[p] = PersistPath THEN {ProgressFileSize}
        ELSE IF seen = {} THEN FileSizes
        ELSE {fsize[q] : q \in seen}

\* if cancel_for_task.load(Ordering::SeqCst): the job reads the flag.
JobStart(w) ==
    /\ wpc[w] = "job"
    /\ wjob[w].kind = "file"
    /\ wpc' = [wpc EXCEPT ![w] = JobEntry]
    /\ UNCHANGED <<size, sender, queue, recvLock, wjob, thread, sdPc, sdI>>
    /\ UNCHANGED <<cancellation, total_bytes_processed, poolLock, paths, fsize, ferrors, total,
                   dpc, di, completed, persisted, chan>>

\* analyze_file(&path_clone) reads the file's size from its metadata, as it
\* is at that moment: cancel() and the dispatcher's persist_progress may
\* have run since the job read the flag.
JobAnalyze(w) ==
    /\ wpc[w] = "analyze"
    /\ wpc' = [wpc EXCEPT ![w] = "fetch_add"]
    /\ \E sz \in SizesOf(wjob[w].id) : fsize' = [fsize EXCEPT ![wjob[w].id] = sz]
    /\ UNCHANGED <<size, sender, queue, recvLock, wjob, thread, sdPc, sdI>>
    /\ UNCHANGED <<cancellation, total_bytes_processed, poolLock, paths, ferrors, total,
                   dpc, di, completed, persisted, chan>>

\* Mutant of JobAnalyzeErrors: an analysis that recorded errors is reported
\* as FileFailed.
JobAnalyzeErrorsFail(w) ==
    /\ wpc[w] = "analyze"
    /\ wpc' = [wpc EXCEPT ![w] = "send_failed"]
    /\ ferrors' = ferrors \cup {wjob[w].id}
    /\ UNCHANGED <<size, sender, queue, recvLock, wjob, thread, sdPc, sdI>>
    /\ UNCHANGED <<cancellation, total_bytes_processed, poolLock, paths, fsize, total,
                   dpc, di, completed, persisted, chan>>

\* analyze_file(&path_clone) comes back with errors recorded in the analysis
\* (the metadata failed and the size stays 0, or the open failed or a line
\* could not be read after the size was taken): the job goes on as for any
\* analysis.
JobAnalyzeErrors(w) ==
    /\ wpc[w] = "analyze"
    /\ wpc' = [wpc EXCEPT ![w] = "fetch_add"]
    /\ \E sz \in SizesOf(wjob[w].id) \cup {0} :
          fsize' = [fsize EXCEPT ![wjob[w].id] = sz]
    /\ ferrors' = ferrors \cup {wjob[w].id}
    /\ UNCHANGED <<size, sender, queue, recvLock, wjob, thread, sdPc, sdI>>
    /\ UNCHANGED <<cancellation, total_bytes_processed, poolLock, paths, total,
                   dpc, di, completed, persisted, chan>>

\* tx_submit.send(FileFailed(..)); return
JobSendFailed(w) ==
    /\ wpc[w] = "send_failed"
    /\ chan' = send(chan, FileFailed(paths[wjob[w].id]))
    /\ wpc' = [wpc EXCEPT ![w] = "lock"]
    /\ wjob' = [wjob EXCEPT ![w] = NoJob]
    /\ UNCHANGED <<size, sender, queue, recvLock, thread, sdPc, sdI>>
    /\ UNCHANGED <<cancellation, total_bytes_processed, poolLock, paths, fsize, ferrors, total,
                   dpc, di, completed, persisted>>

\* Mutants of fetch_add: the counter is overwritten, not added to; the
\* size is subtracted.
fetch_add_lost(counter, n) == n
fetch_sub(counter, n) == counter - n
\* bytes_for_task.fetch_add(analysis.stats.size_bytes as usize)
fetch_add(counter, n) == counter + n

JobFetchAdd(w) ==
    /\ wpc[w] = "fetch_add"
    /\ total_bytes_processed' =
          fetch_add(total_bytes_processed, analyze_file(wjob[w].id).size_bytes)
    /\ wpc' = [wpc EXCEPT ![w] = "send_completed"]
    /\ UNCHANGED <<size, sender, queue, recvLock, wjob, thread, sdPc, sdI>>
    /\ UNCHANGED <<cancellation, poolLock, paths, fsize, ferrors, total,
                   dpc, di, completed, persisted, chan>>

\* tx_submit.send(FileCompleted(analysis)); the job returns
JobSendCompleted(w) ==
    /\ wpc[w] = "send_completed"
    /\ chan' = send(chan, FileCompleted(analyze_file(wjob[w].id)))
    /\ wpc' = [wpc EXCEPT ![w] = "lock"]
    /\ wjob' = [wjob EXCEPT ![w] = NoJob]
    /\ UNCHANGED <<size, sender, queue, recvLock, thread, sdPc, sdI>>
    /\ UNCHANGED <<cancellation, total_bytes_processed, poolLock, paths, fsize, ferrors, total,
                   dpc, di, completed, persisted>>

\* ------------------------------------------------------------- main.rs
\* rx.recv_timeout returns Ok(msg): the consumer takes the oldest event.
\* (A Timeout changes nothing and the loop goes round.)
ConsumerRecv ==
    /\ mainPc = "loop"
    /\ chan # <<>>
    /\ received' = Append(received, Head(chan))
    /\ chan' = Tail(chan)
    /\ UNCHANGED <<mainPc, reported>>
    /\ UNCHANGED <<cancellation, total_bytes_processed, poolLock, paths, fsize, ferrors, total,
                   dpc, di, completed, persisted>>

\* rx.recv_timeout returns Err(Disconnected): the channel is empty and every
\* send-end is dropped; the loop breaks.
ConsumerDisconnected ==
    /\ mainPc = "loop"
    /\ chan = <<>>
    /\ ~ProgressSenderAlive
    /\ mainPc' = "summary"
    /\ UNCHANGED <<received, reported>>

\* A caller of process_dirs that drops rx while the dispatch runs, keeping
\* the processor: the events still buffered are discarded with the channel.
ConsumerDrop ==
    /\ mainPc = "loop"
    /\ mainPc' = "dropped"
    /\ chan' = <<>>
    /\ UNCHANGED <<received, reported>>
    /\ UNCHANGED <<cancellation, total_bytes_processed, poolLock, paths, fsize, ferrors, total,
                   dpc, di, completed, persisted>>

\* println!("Done. Total bytes processed: {}", processor.total_bytes_processed())
MainSummary ==
    /\ mainPc = "summary"
    /\ reported' = total_bytes_processed
    /\ mainPc' = "drop"
    /\ UNCHANGED received

\* main returns and the processor is dropped. When the dispatcher's closure
\* has ended, main holds the last Arc of the pool: the pool is dropped and
\* its Drop calls shutdown(). Otherwise the dispatcher thread still owns the
\* pool: nothing is shut down and main returns at once, which ends the
\* process while the other threads may still take steps.
MainDrop ==
    /\ mainPc = "drop"
    /\ IF dpc = "ended"
         THEN /\ ShutdownBegin
              /\ mainPc' = "shutdown"
         ELSE /\ UNCHANGED <<size, sender, queue, recvLock, wpc, wjob, thread, sdPc, sdI>>
              /\ mainPc' = "exit"
    /\ UNCHANGED <<received, reported>>

\* shutdown() has returned to Drop in main; main returns.
MainExit ==
    /\ mainPc = "shutdown"
    /\ sdPc = "none"
    /\ mainPc' = "exit"
    /\ UNCHANGED <<received, reported>>

\* ------------------------------------------------------------ PoolSpec
PoolNext ==
    \/ Execute /\ UNCHANGED <<procVars, mainVars>>
    \/ CallShutdown /\ UNCHANGED <<procVars, mainVars>>
    \/ ShutdownSend /\ UNCHANGED <<testVars, procVars, mainVars>>
    \/ ShutdownJoin /\ UNCHANGED <<testVars, procVars, mainVars>>
    \/ ShutdownWait /\ UNCHANGED <<testVars, procVars, mainVars>>
    \/ \E w \in Workers : WorkerLock(w) /\ UNCHANGED <<testVars, procVars, mainVars>>
    \/ \E w \in Workers : WorkerRecv(w) /\ UNCHANGED <<testVars, procVars, mainVars>>
    \/ \E w \in Workers : TokenJobRun(w) /\ UNCHANGED <<procVars, mainVars>>

PoolSpec == Init /\ [][PoolNext]_vars

\* The pool driven directly by a caller some of whose jobs panic.
PanicNext ==
    \/ PoolNext
    \/ ExecutePanicking /\ UNCHANGED <<procVars, mainVars>>
    \/ \E w \in Workers : PanicJobRun(w) /\ UNCHANGED <<procVars, mainVars>>

PanicSpec == Init /\ [][PanicNext]_vars

\* PoolSpec with the scheduling the threads get: every worker thread keeps
\* running while it can take a step (every job returns), and so does the
\* thread inside shutdown(); the caller is free to call execute() and
\* shutdown() or not.
PoolWorkerStep(w) ==
    /\ w \in Workers
    /\ \/ (WorkerLock(w) \/ WorkerRecv(w)) /\ UNCHANGED <<testVars, procVars, mainVars>>
       \/ TokenJobRun(w) /\ UNCHANGED <<procVars, mainVars>>

ShutdownStep ==
    (ShutdownSend \/ ShutdownJoin \/ ShutdownWait) /\ UNCHANGED <<testVars, procVars, mainVars>>

PoolFairness ==
    /\ \A w \in 1..MaxWorkers : WF_vars(PoolWorkerStep(w))
    /\ WF_vars(ShutdownStep)

PoolLiveSpec == Init /\ [][PoolNext]_vars /\ PoolFairness

\* ---------------------------------------------------------------- Spec
Next ==
    \/ ProcessDirs /\ UNCHANGED <<poolVars, testVars>>
    \/ Cancel /\ UNCHANGED <<poolVars, testVars, mainVars>>
    \/ DispCheck /\ UNCHANGED <<poolVars, testVars, mainVars>>
    \/ DispStarted /\ UNCHANGED <<poolVars, testVars, mainVars>>
    \/ DispExecute /\ UNCHANGED <<testVars, mainVars>>
    \/ DispProgress /\ UNCHANGED <<poolVars, testVars, mainVars>>
    \/ DispPersistCreate /\ UNCHANGED <<poolVars, testVars, mainVars>>
    \/ DispPersistWrite /\ UNCHANGED <<poolVars, testVars, mainVars>>
    \/ DispSleep /\ UNCHANGED <<poolVars, testVars, mainVars>>
    \/ DispEnd /\ UNCHANGED <<testVars, mainVars>>
    \/ \E w \in Workers : WorkerLock(w) /\ UNCHANGED <<testVars, procVars, mainVars>>
    \/ \E w \in Workers : WorkerRecv(w) /\ UNCHANGED <<testVars, procVars, mainVars>>
    \/ \E w \in Workers : JobStart(w) /\ UNCHANGED <<testVars, mainVars>>
    \/ \E w \in Workers : JobAnalyze(w) /\ UNCHANGED <<testVars, mainVars>>
    \/ \E w \in Workers : JobSendFailed(w) /\ UNCHANGED <<testVars, mainVars>>
    \/ \E w \in Workers : JobFetchAdd(w) /\ UNCHANGED <<testVars, mainVars>>
    \/ \E w \in Workers : JobSendCompleted(w) /\ UNCHANGED <<testVars, mainVars>>
    \/ ConsumerRecv /\ UNCHANGED <<poolVars, testVars>>
    \/ ConsumerDisconnected /\ UNCHANGED <<poolVars, testVars, procVars>>
    \/ MainSummary /\ UNCHANGED <<poolVars, testVars, procVars>>
    \/ MainDrop /\ UNCHANGED <<testVars, procVars>>
    \/ ShutdownSend /\ UNCHANGED <<testVars, procVars, mainVars>>
    \/ ShutdownJoin /\ UNCHANGED <<testVars, procVars, mainVars>>
    \/ ShutdownWait /\ UNCHANGED <<testVars, procVars, mainVars>>
    \/ MainExit /\ UNCHANGED <<poolVars, testVars, procVars>>

Spec == Init /\ [][Next]_vars

\* Spec with the failures the core swallows: files whose analysis records
\* errors, and a progress file that cannot be written.
ErrNext ==
    \/ Next
    \/ \E w \in Workers : JobAnalyzeErrors(w) /\ UNCHANGED <<testVars, mainVars>>
    \/ DispPersistCreateFails /\ UNCHANGED <<poolVars, testVars, mainVars>>
    \/ DispPersistWriteFails /\ UNCHANGED <<poolVars, testVars, mainVars>>

ErrSpec == Init /\ [][ErrNext]_vars

\* Spec with a caller that may drop the receive-end of the progress channel.
DropNext ==
    \/ Next
    \/ ConsumerDrop /\ UNCHANGED <<poolVars, testVars>>

DropSpec == Init /\ [][DropNext]_vars


\* Spec with the scheduling the threads get: the dispatcher thread, every
\* worker thread and the main thread each keep running while they can take a
\* step (every analyze_file call returns); cancel() may or may not be called.
DispatcherStep ==
    \/ (DispCheck \/ DispStarted \/ DispProgress \/ DispPersistCreate
           \/ DispPersistWrite \/ DispSleep)
          /\ UNCHANGED <<poolVars, testVars, mainVars>>
    \/ (DispExecute \/ DispEnd) /\ UNCHANGED <<testVars, mainVars>>
    \* the shutdown() that the closure's drop of pool_arc began (DispEnd
    \* after main has returned) runs on the dispatcher thread
    \/ /\ mainPc = "exit"
       /\ ShutdownSend \/ ShutdownJoin \/ ShutdownWait
       /\ UNCHANGED <<testVars, procVars, mainVars>>

WorkerStep(w) ==
    /\ w \in Workers
    /\ \/ (WorkerLock(w) \/ WorkerRecv(w))
             /\ UNCHANGED <<testVars, procVars, mainVars>>
       \/ (JobStart(w) \/ JobAnalyze(w) \/ JobSendFailed(w) \/ JobFetchAdd(w)
              \/ JobSendCompleted(w))
             /\ UNCHANGED <<testVars, mainVars>>

MainStep ==
    \/ (ProcessDirs \/ ConsumerRecv) /\ UNCHANGED <<poolVars, testVars>>
    \/ (ConsumerDisconnected \/ MainSummary \/ MainExit)
          /\ UNCHANGED <<poolVars, testVars, procVars>>
    \/ MainDrop /\ UNCHANGED <<testVars, procVars>>
    \* the shutdown() that main's drop of the processor began
    \/ /\ mainPc = "shutdown"
       /\ ShutdownSend \/ ShutdownJoin \/ ShutdownWait
       /\ UNCHANGED <<testVars, procVars, mainVars>>

\* Every thread that can take a step takes one in the end, as long as main
\* has not returned: the return of main ends the process whatever the other
\* threads are doing, so after it every step is possible and none is sure
\* to happen.
Fairness ==
    /\ WF_vars(mainPc # "exit" /\ DispatcherStep)
    /\ \A w \in 1..MaxWorkers : WF_vars(mainPc # "exit" /\ WorkerStep(w))
    /\ WF_vars(mainPc # "exit" /\ MainStep)

LiveSpec == Init /\ [][Next]_vars /\ Fairness

\* ====================================================== the claims
Range(s) == {s[k] : k \in 1..Len(s)}

\* The jobs handed to execute() while the pool still accepted jobs.
Accepted == (1..(nextToken - 1)) \ lateJobs

\* How many copies of the token job i exist: waiting in the queue, held by a
\* worker that has not run it yet, or run (its token sent).
InQueue(i) == Cardinality({k \in 1..Len(queue) : queue[k] = TokenJob(i)})
HeldBy(i) == {w \in Workers : wjob[w] = TokenJob(i)}
Sent(i) == Cardinality({k \in 1..Len(results) : results[k] = i})
Occurrences(i) == InQueue(i) + Cardinality(HeldBy(i)) + Sent(i)

AllExited == \A w \in Workers : wpc[w] = "exited"

\* C1: every job submitted to a pool that has not begun shutdown is executed
\* exactly once by exactly one worker: at any time it is either still queued,
\* or held by exactly one worker, or has sent its token exactly once, so no job
\* is lost, run twice or run by two workers, and once no job is queued or held
\* the tokens received are exactly the k distinct tokens submitted.
C1_ExactlyOnce ==
    /\ \A i \in Accepted : Occurrences(i) = 1
    /\ \A i \in Accepted : Sent(i) <= 1 /\ Cardinality(HeldBy(i)) <= 1
    /\ (QueuedJobs(queue) = {} /\ \A w \in Workers : wjob[w] = NoJob)
          => /\ Len(results) = Cardinality(Accepted)
             /\ Range(results) = Accepted

\* C1 witness: MaxJobs jobs were submitted to a live pool of two workers and
\* all of their tokens have arrived.
C1_Witness ==
    /\ size = 2
    /\ sender = "Some"
    /\ nextToken = MaxJobs + 1
    /\ Len(results) = MaxJobs
    /\ Range(results) = 1..MaxJobs

\* C8: no job enqueued before shutdown() began is skipped: a worker exits
\* only when no job is left in the queue ahead of the Shutdown messages, and
\* once every worker has exited every accepted job has been executed.
C8_NoJobSkipped ==
    /\ (\E w \in Workers : wpc[w] = "exited") => QueuedJobs(queue) = {}
    /\ AllExited => Range(results) = Accepted

\* C8 witness: shutdown() began with jobs in the queue, has returned, and
\* every worker has exited after those jobs were executed.
C8_Witness ==
    /\ AllExited
    /\ sdPc = "none"
    /\ Cardinality(pendingAtShutdown) >= 2
    /\ pendingAtShutdown \subseteq Range(results)

\* C9 (as claimed): the jobs still queued when shutdown() begins are dropped
\* and never executed.
C9_QueuedJobsDropped ==
    \A j \in pendingAtShutdown : j \notin Range(results)

\* C9 (amended): the jobs still queued when shutdown() begins are not
\* dropped: they stay ahead of the Shutdown messages, and every one of them
\* has been executed by the time shutdown() has joined the workers.
C9_QueuedJobsExecuted ==
    /\ \A j \in pendingAtShutdown : Occurrences(j) = 1
    /\ (sender = "None" /\ sdPc = "none") => pendingAtShutdown \subseteq Range(results)

\* C9 witness: shutdown() found jobs in the queue and has returned.
C9_Witness ==
    /\ pendingAtShutdown # {}
    /\ sender = "None"
    /\ sdPc = "none"
    /\ size = 1

\* C10: a job passed to execute() after shutdown() began is not enqueued and
\* is never held or executed by a worker, and the call returns.
C10_LateJobDropped ==
    \A j \in lateJobs : Occurrences(j) = 0

\* C10 witness: execute() was called, and returned, on a pool that had been
\* shut down.
C10_Witness ==
    /\ lateJobs # {}
    /\ sender = "None"
    /\ nextToken - 1 \in lateJobs
    /\ AllExited

\* ---------------------------------------------- claims on process_dirs
\* Every event sent on the progress channel so far, in send order.
Stream == received \o chan

Terminal == {"FileCompleted", "FileFailed"}

\* The positions of the stream holding an event of a type in T about path p.
EventsOf(T, p) ==
    LET S == Stream IN {k \in 1..Len(S) : S[k].type \in T /\ S[k].path = p}

\* The consumer has observed the disconnection of the channel.
StreamClosed == mainPc \notin {"new", "loop"}

\* C2: for every file, FileStarted is placed in the channel strictly before
\* the FileCompleted or FileFailed of the same file: every terminal event
\* has a FileStarted of its path before it, and one of its own when the path
\* was resolved more than once (before the j-th event there are more
\* FileStarted than terminal events of that path).
C2_StartedBeforeTerminal ==
    LET S == Stream IN
    \A j \in 1..Len(S) :
        S[j].type \in Terminal =>
            Cardinality({i \in 1..(j - 1) : S[i] = FileStarted(S[j].path)})
              > Cardinality({i \in 1..(j - 1) :
                               S[i].type \in Terminal /\ S[i].path = S[j].path})

\* C2 witness: two workers, and the second file finished before the first.
C2_Witness ==
    /\ size = 2
    /\ paths = <<1, 2>>
    /\ \E i \in 1..Len(Stream) : \E j \in (i + 1)..Len(Stream) :
          /\ Stream[i].type \in Terminal /\ Stream[i].path = 2
          /\ Stream[j].type \in Terminal /\ Stream[j].path = 1

\* The OverallProgress events sent so far, in order.
ProgressEvents == SelectSeq(Stream, LAMBDA e : e.type = "OverallProgress")

\* C3: in the OverallProgress events of a process_dirs call, completed never
\* decreases and never exceeds total, and total is the number of resolved
\* files in every one of them.
C3_ProgressMonotone ==
    LET P == ProgressEvents IN
    \A k \in 1..Len(P) :
        /\ P[k].total = Len(paths)
        /\ P[k].completed <= P[k].total
        /\ k > 1 => P[k - 1].completed <= P[k].completed

\* C3 witness: two OverallProgress events were sent, the last with
\* completed = total.
C3_Witness ==
    /\ Len(ProgressEvents) = 2
    /\ ProgressEvents[2].completed = 2
    /\ ProgressEvents[2].total = 2

\* The dispatcher's loop is over.
LoopOver == dpc \in {"done", "ended"}

\* The dispatcher has left its loop on reading the flag as set, with files
\* left over.
StoppedByCancel == LoopOver /\ di <= Len(paths)

\* Nothing has happened for a file beyond the first c resolved files: the
\* events name paths among the first c only, there are no more FileStarted
\* and no more terminal events than c, and no job is for a later index.
NothingBeyond(c) ==
    /\ LET S == Stream IN
          /\ \A k \in 1..Len(S) :
                IF S[k].type = "OverallProgress"
                  THEN S[k].completed <= c
                  ELSE \E j \in 1..c : S[k].path = paths[j]
          /\ Cardinality({k \in 1..Len(S) : S[k].type = "FileStarted"}) <= c
          /\ Cardinality({k \in 1..Len(S) : S[k].type \in Terminal}) <= c
    /\ \A k \in 1..Len(queue) : queue[k].type = "NewJob" => queue[k].id <= c
    /\ \A w \in Workers : wjob[w].type = "NewJob" => wjob[w].id <= c

\* C4: when the dispatcher reads the cancellation flag as set at the head of
\* its loop it leaves the loop, it never iterates again, and with c files
\* submitted by then no FileStarted, OverallProgress, job or terminal event
\* ever exists for a file beyond c.
C4_CancelStopsDispatch ==
    /\ [][(dpc = "check" /\ cancellation /\ dpc' # dpc) => dpc' = "done"]_vars
    /\ [][LoopOver => (LoopOver' /\ completed' = completed /\ di' = di)]_vars
    /\ [](StoppedByCancel => (completed = di - 1 /\ NothingBeyond(completed)))

\* C4 witness: the dispatcher stopped after one of two files, and the run
\* went on to its end.
C4_Witness ==
    /\ StoppedByCancel
    /\ completed = 1
    /\ Len(paths) = 2
    /\ mainPc = "exit"

\* C5: after process_dirs was called, with or without cancel(), the consumer
\* eventually observes the disconnection, and by then the dispatcher has
\* finished, no job is queued or running, and every event was received.
C5_StreamCloses ==
    /\ (mainPc = "loop") ~> StreamClosed
    /\ [](StreamClosed =>
            /\ LoopOver
            /\ QueuedJobs(queue) = {}
            /\ \A w \in Workers : wjob[w] = NoJob
            /\ chan = <<>>)

\* C5 witness: the stream closed after a cancellation that failed a job.
C5_Witness ==
    /\ StreamClosed
    /\ cancellation
    /\ \E k \in 1..Len(received) : received[k].type = "FileFailed"
    /\ StoppedByCancel

\* C6: every file has at most one FileStarted and at most one terminal event
\* (FileCompleted or FileFailed, never both, never twice), and once the
\* stream has closed every started file has exactly one terminal event.
C6_OneStartOneEnd ==
    \A p \in Range(paths) :
        /\ Cardinality(EventsOf({"FileStarted"}, p)) <= 1
        /\ Cardinality(EventsOf(Terminal, p)) <= 1
        /\ StreamClosed =>
              Cardinality(EventsOf(Terminal, p)) = Cardinality(EventsOf({"FileStarted"}, p))

\* The first place of each file in the resolved sequence: one index for
\* each discovered file.
DiscoveredFiles == {k \in 1..Len(paths) : \A j \in 1..(k - 1) : paths[j] # paths[k]}

RECURSIVE SumOver(_)
\* The sum of the sizes found for the indices in S.
SumOver(S) ==
    IF S = {} THEN 0
    ELSE LET p == CHOOSE x \in S : TRUE IN fsize[p] + SumOver(S \ {p})

\* C7: when a process_dirs call has run to its end and cancel() was never
\* called, total_bytes_processed() is the sum of the sizes of all discovered
\* files (each file's size once), and that is the total the summary
\* reports.
C7_TotalIsSum ==
    (StreamClosed /\ ~cancellation) =>
        /\ total_bytes_processed = SumOver(DiscoveredFiles)
        /\ mainPc # "summary" => reported = SumOver(DiscoveredFiles)

\* --------------------------------------------------- claims on shutdown
\* Every worker's handle has been taken and joined: a shutdown() has run to
\* its end.
AllJoined ==
    /\ \A w \in Workers : thread[w] = "None"
    /\ sdPc # "wait"

\* C11: shutdown() is idempotent: once a shutdown() has joined every worker,
\* a further call (an explicit one, or the one Drop makes) sends no message,
\* joins no thread, leaves the pool as it was, and never waits in its join
\* loop.
C11_ShutdownIdempotent ==
    /\ [][AllJoined =>
            /\ sender' = sender /\ queue' = queue /\ thread' = thread
            /\ wpc' = wpc /\ wjob' = wjob /\ recvLock' = recvLock
            /\ sdPc' \in {"none", "join"}]_vars
    /\ []((AllJoined /\ sdPc = "join") => thread[sdI] = "None")

\* C11 witness: a second shutdown() is in its join loop, at the last worker
\* of a pool of two.
C11_Witness ==
    /\ AllJoined
    /\ sdPc = "join"
    /\ size = 2
    /\ sdI = 2

ShutdownsQueued == Cardinality({k \in 1..Len(queue) : queue[k].type = "Shutdown"})
ExitedCount == Cardinality({w \in Workers : wpc[w] = "exited"})

\* C12: shutdown() sends exactly one Shutdown message per worker (each is
\* still queued or has ended one worker), returns only after every worker
\* thread has exited, and, the threads being scheduled fairly and every job
\* returning, a shutdown() that was entered returns.
C12_ShutdownJoinsAll ==
    /\ [](sdPc = "send" => ShutdownsQueued + ExitedCount = sdI - 1)
    /\ []((sender = "None" /\ sdPc # "send") => ShutdownsQueued + ExitedCount = size)
    /\ [](\A w \in Workers :
            thread[w] = "None" => (wpc[w] = "exited" \/ (sdPc = "wait" /\ sdI = w)))
    /\ [](sdPc = "wait" => thread[sdI] = "None")
    /\ [][sdPc = "wait" /\ sdPc' # "wait" => wpc[sdI] = "exited"]_vars
    /\ []((sender = "None" /\ sdPc = "none") => (AllExited /\ AllJoined))
    /\ (sdPc # "none") ~> (sdPc = "none")

\* C12 witness: shutdown() has returned on a pool of two workers that had
\* jobs to run, and both workers have exited.
C12_Witness ==
    /\ sender = "None"
    /\ sdPc = "none"
    /\ size = 2
    /\ AllExited
    /\ Len(results) = MaxJobs

\* ------------------------------- claims on the flag, the job, the counter
\* C13: the cancellation flag starts false and, once cancel() has set it, no
\* step of any thread (process_dirs, the dispatcher, a job, the summary's
\* total_bytes_processed(), a further cancel()) sets it back.
C13_CancelMonotonic ==
    /\ ~cancellation
    /\ [][cancellation => cancellation']_vars

\* C13 witness: cancel() was called during a run that went on to its end.
C13_Witness ==
    /\ cancellation
    /\ mainPc = "exit"
    /\ Len(paths) = 2
    /\ completed = 2

\* The indices (in the resolved sequence) of the files whose job a worker
\* holds (dequeued, not yet returned).
HeldFiles == {wjob[w].id : w \in {v \in Workers : wjob[v].type = "NewJob"}}

\* The FileCompleted and FileFailed events sent so far, in send order.
TerminalEvents == SelectSeq(Stream, LAMBDA e : e.type \in Terminal)

\* The number of jobs handed to the pool so far: each waits in the queue, is
\* held by a worker, or has returned after its one terminal event.
JobsHanded ==
    Cardinality(QueuedJobs(queue)) + Cardinality(HeldFiles) + Len(TerminalEvents)

\* The indices whose job has returned: the jobs are handed over in the
\* resolved order, so these are the indices handed over that are neither
\* queued nor held.
EndedJobs == (1..JobsHanded) \ (QueuedJobs(queue) \cup HeldFiles)

\* The indices whose job ran analyze_file and returned, and those whose job
\* returned without running it.
CompletedFiles == {k \in EndedJobs : fsize[k] # NoSize}
FailedFiles == {k \in EndedJobs : fsize[k] = NoSize}

\* The terminal events are those of the jobs that returned: for every path
\* and size there are as many FileCompleted events as jobs of that path
\* that analysed the file with that size, and for every path as many
\* FileFailed events as jobs of that path that returned without analysing.
EventsMatch ==
    LET S == Stream
        done == CompletedFiles
        failed == FailedFiles
    IN  \A p \in Range(paths) :
            /\ \A z \in Sizes :
                  Cardinality({k \in 1..Len(S) : S[k].type = "FileCompleted"
                                   /\ S[k].path = p /\ S[k].size_bytes = z})
                    = Cardinality({k \in done : paths[k] = p /\ fsize[k] = z})
            /\ Cardinality({k \in 1..Len(S) : S[k].type = "FileFailed" /\ S[k].path = p})
                  = Cardinality({k \in failed : paths[k] = p})

\* The step of worker w that leaves position pos.
Leaves(w, pos) == wpc[w] = pos /\ wpc'[w] # pos

\* C14: a job started by a worker reads the flag: when it is set the job does
\* not run analyze_file, leaves the byte counter alone and sends
\* FileFailed(path, "cancelled"); otherwise it runs analyze_file (whatever
\* becomes of the flag after the read), adds the size found to the byte
\* counter and sends FileCompleted with that result.
C14_JobRechecksCancel ==
    /\ [][\A w \in Workers : Leaves(w, "job") =>
            /\ wpc'[w] = IF cancellation THEN "send_failed" ELSE "analyze"
            /\ fsize' = fsize
            /\ total_bytes_processed' = total_bytes_processed]_vars
    /\ [][\A w \in Workers : Leaves(w, "analyze") =>
            /\ wpc'[w] = "fetch_add"
            /\ fsize[wjob[w].id] = NoSize
            /\ fsize'[wjob[w].id] \in Sizes
            /\ \A k \in 1..Len(paths) : k # wjob[w].id => fsize'[k] = fsize[k]
            /\ total_bytes_processed' = total_bytes_processed]_vars
    /\ [][\A w \in Workers : Leaves(w, "send_failed") =>
            /\ chan' = Append(chan, FileFailed(paths[wjob[w].id]))
            /\ wpc'[w] = "lock"
            /\ fsize' = fsize
            /\ total_bytes_processed' = total_bytes_processed]_vars
    /\ [][\A w \in Workers : Leaves(w, "fetch_add") =>
            /\ total_bytes_processed' = total_bytes_processed + fsize[wjob[w].id]
            /\ wpc'[w] = "send_completed"]_vars
    /\ [][\A w \in Workers : Leaves(w, "send_completed") =>
            /\ chan' = Append(chan, [type |-> "FileCompleted", path |-> paths[wjob[w].id],
                                     size_bytes |-> fsize[wjob[w].id]])
            /\ wpc'[w] = "lock"]_vars
    /\ [](/\ EventsMatch
          /\ \A k \in 1..Len(Stream) :
                /\ Stream[k].type \in Terminal => Stream[k].path \in Range(paths)
                /\ Stream[k].type = "FileFailed" =>
                      /\ Stream[k].operation = "cancelled"
                      /\ cancellation
                /\ Stream[k].type = "FileCompleted" => Stream[k].size_bytes \in Sizes)

\* C14 witness: one worker is about to send FileFailed for a job that found
\* the flag set while the other is about to send FileCompleted.
C14_Witness ==
    \E v, w \in Workers :
        /\ wpc[v] = "send_failed"
        /\ wpc[w] = "send_completed"
        /\ fsize[wjob[w].id] = 50

\* C17: the byte counter starts at 0 and no step of any thread lowers it, so
\* successive reads of total_bytes_processed() never decrease.
C17_CounterMonotone ==
    /\ total_bytes_processed = 0
    /\ [][total_bytes_processed' >= total_bytes_processed]_vars
    /\ [](mainPc \in {"drop", "shutdown", "exit"} => reported <= total_bytes_processed)

\* C17 witness: the counter was raised twice, around a cancel().
C17_Witness ==
    /\ total_bytes_processed = 50
    /\ cancellation
    /\ \E k \in 1..Len(Stream) : Stream[k].type = "FileCompleted" /\ Stream[k].size_bytes = 0
    /\ \E k \in 1..Len(Stream) : Stream[k].type = "FileCompleted" /\ Stream[k].size_bytes = 50

\* ------------------------------------- claims on the dispatcher's events
\* The events the dispatcher thread itself sent, in send order.
DispatcherEvents ==
    SelectSeq(Stream, LAMBDA e : e.type \in {"FileStarted", "OverallProgress"})

\* The job of the i-th resolved file was handed to the pool: it waits in the
\* queue, is held by a worker, or has reported its end.
Submitted(i) ==
    \/ \E k \in 1..Len(queue) : queue[k] = FileJob(i)
    \/ \E w \in Workers : wjob[w] = FileJob(i)
    \/ i \in EndedJobs

\* C18: the dispatcher's own events are, in channel order, FileStarted(p1),
\* OverallProgress(1, total), FileStarted(p2), OverallProgress(2, total), ...
\* in the resolved order; OverallProgress with completed = i is sent only
\* after the job of p_i was submitted; completed counts the submitted files,
\* whether finished or not.
C18_DispatcherSequence ==
    /\ LET D == DispatcherEvents IN
          \A k \in 1..Len(D) :
              /\ D[k] = IF k % 2 = 1 THEN FileStarted(paths[(k + 1) \div 2])
                                     ELSE OverallProgress(k \div 2, total)
              /\ D[k].type = "OverallProgress" => Submitted(D[k].completed)
    /\ {i \in 1..Len(paths) : Submitted(i)} =
          1..(completed + (IF dpc = "progress" THEN 1 ELSE 0))
    /\ JobsHanded = completed + (IF dpc = "progress" THEN 1 ELSE 0)

\* C18 witness: both OverallProgress events were sent while neither file had
\* finished.
C18_Witness ==
    /\ Len(DispatcherEvents) = 4
    /\ completed = 2
    /\ \A k \in 1..Len(Stream) : Stream[k].type \notin Terminal

RECURSIVE CompletedBytes(_)
\* The sum of size_bytes over the FileCompleted events among the first n
\* events of the stream.
CompletedBytes(n) ==
    IF n = 0 THEN 0
    ELSE (IF Stream[n].type = "FileCompleted" THEN Stream[n].size_bytes ELSE 0)
           + CompletedBytes(n - 1)
\* The files of the jobs that have added their size to the counter and are
\* about to send FileCompleted.
Counted == {wjob[w].id : w \in {v \in Workers : wpc[v] = "send_completed"}}
\* The files of the jobs that wait in the queue or have not finished
\* analyze_file, or go on to report FileFailed.
InFlight ==
    {queue[k].id : k \in {j \in 1..Len(queue) : queue[j].type = "NewJob"}}
      \cup {wjob[w].id : w \in {v \in Workers : wpc[v] \in {"job", "analyze", "send_failed", "fetch_add"}}}

\* C19 as stated: at every instant the counter is the sum of the sizes of the
\* files whose FileCompleted was already emitted.
C19_OnlyEmittedCompleted == total_bytes_processed = CompletedBytes(Len(Stream))

\* C19 amended: the counter is the sum of the sizes of the files whose
\* FileCompleted was emitted and of the files whose job has finished
\* analyze_file and is about to emit it; no file that reported FileFailed and
\* no job waiting or still analysing is counted.
C19_CountsAnalysedFiles ==
    LET done == CompletedFiles
        sending == Counted
    IN  /\ total_bytes_processed = CompletedBytes(Len(Stream)) + SumOver(sending)
        /\ total_bytes_processed = SumOver(done \cup sending)
        /\ done \cap sending = {}
        /\ (done \cup sending) \cap (FailedFiles \cup InFlight) = {}

\* C19 witness: a job has added 50 bytes and not yet sent FileCompleted, while
\* the other file was reported FileFailed.
C19_Witness ==
    /\ total_bytes_processed = 50
    /\ \A k \in 1..Len(Stream) : Stream[k].type # "FileCompleted"
    /\ Counted # {}
    /\ \E k \in 1..Len(Stream) : Stream[k].type = "FileFailed"

\* C20 as stated: the pool lock is held by the dispatcher only for the
\* execute call (it is free while the dispatcher sends OverallProgress,
\* persists and sleeps) and never by a worker.
C20_LockOnlyForExecute ==
    /\ dpc \in {"progress", "persist", "write", "sleep"} => poolLock = "free"
    /\ poolLock \in {"free", "dispatcher"}

\* ------------------------- claims on a dropped receiver and on panics
\* The dispatcher has left its loop and no job waits or runs.
Quiescent ==
    /\ LoopOver
    /\ QueuedJobs(queue) = {}
    /\ \A w \in Workers : wjob[w] = NoJob

\* C15: once the consumer has dropped the receive-end of the progress
\* channel, the failing sends stop nobody: no worker thread has ended, while
\* work is left the dispatcher or a worker can take its next step, and when
\* all is done every job handed to the pool has run and the byte counter
\* holds the sizes of the analysed files; without cancellation the dispatcher
\* has submitted every resolved file and the counter is the sum of all sizes.
C15_DropIsSwallowed ==
    mainPc = "dropped" =>
        /\ \A w \in Workers : wpc[w] \notin Ended
        /\ ~Quiescent => (ENABLED DispatcherStep \/ \E w \in Workers : ENABLED WorkerStep(w))
        /\ Quiescent =>
              /\ \A w \in Workers : wpc[w] \in {"lock", "recv"}
              /\ total_bytes_processed = SumOver({p \in 1..Len(paths) : fsize[p] # NoSize})
        /\ (Quiescent /\ ~cancellation) =>
              /\ di = Len(paths) + 1
              /\ completed = total
              /\ \A p \in 1..Len(paths) : fsize[p] \in Sizes
              /\ total_bytes_processed = SumOver(1..Len(paths))

\* C15 witness: the receive-end was dropped after the first FileStarted was
\* received and before the second file was started; both files were still
\* analysed and counted.
C15_Witness ==
    /\ mainPc = "dropped"
    /\ Quiescent
    /\ ~cancellation
    /\ received = <<FileStarted(1)>>
    /\ completed = 2
    /\ total_bytes_processed = 100

\* The worker threads that run their loop.
LiveWorkers == {w \in Workers : wpc[w] \notin Ended}

\* C16 as stated: until shutdown() begins the number of live worker threads
\* is the configured size, whatever jobs were executed.
C16_PoolKeepsSize ==
    (sender = "Some" /\ sdPc = "none") => Cardinality(LiveWorkers) = size

\* ------------------------------------ claims on the order of the jobs
\* C21: the dispatcher submits the job of the i-th resolved file i-th, and
\* the jobs leave the queue in that order: the queue holds them in ascending
\* order, and a job that was dequeued (held by a worker, or ended) was
\* submitted before every job still queued. With one worker the
\* FileCompleted/FileFailed events are emitted in submission order.
C21_FifoDequeue ==
    /\ \A k \in 1..Len(queue) : \A l \in (k + 1)..Len(queue) :
          (queue[k].type = "NewJob" /\ queue[l].type = "NewJob") =>
              queue[k].id < queue[l].id
    /\ LET ended == TerminalEvents
           waiting == QueuedJobs(queue)
       IN  /\ \A j \in waiting :
                 /\ \A i \in HeldFiles : i < j
                 /\ Len(ended) < j
                 /\ \A i \in 1..(j - 1) : i \in waiting \cup HeldFiles \cup EndedJobs
           /\ size = 1 => \A k \in 1..Len(ended) : ended[k].path = paths[k]

\* C21 witness: with two workers both files were analysed, and the
\* FileCompleted of the second file was emitted before that of the first.
C21_Witness ==
    /\ size = 2
    /\ paths = <<1, 2>>
    /\ Len(TerminalEvents) = 2
    /\ TerminalEvents[1] = [type |-> "FileCompleted", path |-> 2, size_bytes |-> 50]
    /\ TerminalEvents[2] = [type |-> "FileCompleted", path |-> 1, size_bytes |-> 0]

\* ------------------------------------------- claims on the queue lock
\* The workers that hold a dequeued job: it runs, or is about to.
RunningWorkers == {w \in Workers : wjob[w].type = "NewJob"}

\* C22: the lock on the receive-end is held by at most one worker, exactly
\* by the worker that is inside recv(); a worker that holds a job does not
\* hold the lock, so while jobs run another worker can take the free lock,
\* and the worker that holds it can dequeue the next message.
C22_QueueLockOnlyForRecv ==
    /\ recvLock \in {0} \cup Workers
    /\ \A w \in Workers : (recvLock = w) <=> (wpc[w] = "recv")
    /\ Cardinality({w \in Workers : wpc[w] = "recv"}) <= 1
    /\ \A w \in RunningWorkers : recvLock # w /\ wpc[w] = "job"
    /\ Cardinality(RunningWorkers) <= size
    /\ \A w \in Workers :
          /\ (wpc[w] = "lock" /\ recvLock = 0) =>
                ENABLED (WorkerLock(w) /\ UNCHANGED <<testVars, procVars, mainVars>>)
          /\ (wpc[w] = "recv" /\ queue # <<>>) =>
                ENABLED (WorkerRecv(w) /\ UNCHANGED <<testVars, procVars, mainVars>>)

\* C22 witness: one worker holds a job that has not returned while the other
\* holds the lock with a further job in the queue, which it can dequeue.
C22_Witness ==
    /\ size = 2
    /\ wpc[1] = "job"
    /\ wpc[2] = "recv"
    /\ recvLock = 2
    /\ Len(queue) >= 1
    /\ queue[1].type = "NewJob"

\* --------------------------------------------- claims on FileFailed
\* C23: a FileFailed event is only ever sent with the cancellation flag set;
\* a file whose analysis ran, with or without errors recorded, is never
\* reported FileFailed; when cancel() was never called and the run is over,
\* every resolved file, also one analysed with errors, has its
\* FileCompleted and none has a FileFailed.
C23_FailedOnlyByCancel ==
    /\ (\E k \in 1..Len(Stream) : Stream[k].type = "FileFailed") => cancellation
    /\ EventsMatch
    /\ ferrors \cap FailedFiles = {}
    /\ \A p \in ferrors : fsize[p] \in Sizes
    /\ (StreamClosed /\ ~cancellation) =>
          /\ CompletedFiles = 1..Len(paths)
          /\ Cardinality({k \in 1..Len(Stream) : Stream[k].type = "FileCompleted"})
                = Len(paths)
          /\ \A k \in 1..Len(Stream) : Stream[k].type # "FileFailed"

\* C23 witness: without cancellation the run ended with both files reported
\* FileCompleted, the first analysed with errors and zero size.
C23_Witness ==
    /\ mainPc = "exit"
    /\ ~cancellation
    /\ ferrors = {1}
    /\ fsize[1] = 0
    /\ CompletedFiles = {1, 2}

\* ------------------------------- claims on a call made after cancel()
\* cancel() has returned and process_dirs is not yet called, or the call
\* made since has done nothing: the dispatcher is at the head of its first
\* iteration or has left the loop there, no event was sent, no job was
\* handed to the pool, nothing was counted or persisted.
QuietRun ==
    /\ cancellation
    /\ \/ mainPc = "new"
       \/ /\ dpc \in {"check", "done", "ended"}
          /\ di = 1
          /\ completed = 0
          /\ Stream = <<>>
          /\ QueuedJobs(queue) = {}
          /\ HeldFiles = {}
          /\ total_bytes_processed = 0
          /\ persisted \in ProgressFileBefore

\* C24: a process_dirs call made after cancel() has returned finds the flag
\* still set (nothing resets it): whatever the number of resolved files, the
\* call and every later step send no event and submit no job; the
\* dispatcher can take its first look at the flag, which ends its loop, and
\* then the consumer can observe the disconnection, with nothing received.
C24_CancelledBeforeStart ==
    /\ [][QuietRun => (QuietRun' /\ persisted' = persisted)]_vars
    /\ []((QuietRun /\ dpc = "check") => ENABLED DispatcherStep)
    /\ []((QuietRun /\ LoopOver /\ mainPc = "loop") =>
             ENABLED (ConsumerDisconnected /\ UNCHANGED <<poolVars, testVars, procVars>>))
    /\ []((QuietRun /\ StreamClosed) => (received = <<>> /\ LoopOver))

\* C24 witness: cancel() came first, the call resolved two files, and the
\* run ended with nothing sent.
C24_Witness ==
    /\ QuietRun
    /\ mainPc = "exit"
    /\ Len(paths) = MaxFiles
    /\ fsize = [k \in 1..MaxFiles |-> NoSize]
====
